---- MODULE Spec2Model ----
(***************************************************************************)
(* Model of the bulk query job facade of simpleforce (bulk.go): the job    *)
(* state enumeration, GetStatus, the Wait polling loop, GetResultSet and   *)
(* Delete, driven by one caller, a cancellable context and a remote        *)
(* endpoint that answers each request with an arbitrary outcome.           *)
(***************************************************************************)
EXTENDS Integers, Sequences, FiniteSets, TLC

VARIABLES
    op,        \* the facade operation the caller is in: "none" when idle
    pc,        \* the position inside that operation
    locator,   \* GetResultSet's argument
    ctxErr,    \* ctx.Err(): Nil until the context is done
    req,       \* the HTTP request the operation issued last (NoReq before)
    resp,      \* the transport's answer to req, while the operation holds it
    status,    \* Wait: the status the last GetStatus returned (NoStatus if none)
    timer,     \* Wait: seconds of the current time.Sleep still to run
    ret,       \* what the finished operation returned
    fetches,   \* history: status requests issued by the current Wait
    sleeps,    \* history: sleeps completed by the current Wait
    answers,   \* history: UploadComplete/InProgress answers served this Wait
    others,    \* history: answers with a state outside the enumeration, this Wait
    preCancelled, \* history: the context was already done when Wait was called
    lateCancel,   \* history: the context became done during the current request
    sent,      \* history: (locator, request) of every GetResultSet call
    open,      \* response bodies httpClient.Do handed over and nobody closed
    kept,      \* the status snapshot the caller kept from an earlier GetStatus
    draining,  \* the caller that drains the results: "off", "run", "drained",
               \* "failed"
    pages,     \* the number of result pages the server holds for that caller
    token,     \* the continuation token that caller passes next
    received,  \* the page bodies that caller received, in order
    job,       \* the BulkJob the facade is bound to
    stateIn,   \* the JobStateEnum a state function is applied to
    bytesIn,   \* the bytes handed to SalesforceTime.UnmarshalJSON
    timeRecv,  \* the SalesforceTime that UnmarshalJSON is called on
    fnOut      \* what the applied function returned (NoOut before)

\* the variables of the pure functions, which no facade operation touches
pureVars == <<stateIn, bytesIn, timeRecv, fnOut>>

\* the variables of the caller that drains the results
drainVars == <<draining, pages, token, received>>

vars == <<job, op, pc, locator, ctxErr, req, resp, status, timer, ret,
          fetches, sleeps, answers, others, preCancelled, lateCancel, sent,
          open, kept, drainVars, pureVars>>

-----------------------------------------------------------------------------
(* Bounds of the model *)

\* history counters saturate here; the loop itself is never capped
MaxCount == 4
\* the count of open response bodies saturates here
MaxOpen == 2
\* the server holds at most this many result pages; the draining loop is
\* stopped when it has received one page more
MaxPages == 4

(* Program constants *)

\* time.Sleep(10 * time.Second)
SleepSeconds == 10
\* resp.StatusCode >= 400
ErrorStatus == 400
\* the int width of a 32-bit build: strconv.Atoi's fast path takes fewer
\* than 10 characters and its result saturates at 2^31 - 1
IntSize == 32

\* the nil error; every error is a record with a dynamic type
Nil == [type |-> "nil"]
NoReq == [method |-> "none"]
NoResp == [kind |-> "none"]
NoStatus == [kind |-> "none"]
NoRet == [kind |-> "none"]
NoOut == [fn |-> "none"]
NoKept == [addr |-> 0, written |-> FALSE]
Absent == "<absent>"

Inc(n) == IF n < MaxCount THEN n + 1 ELSE MaxCount

\* one more response body is open
Opened(n) == IF n < MaxOpen THEN n + 1 ELSE MaxOpen

-----------------------------------------------------------------------------
(* Job State Model *)

UploadComplete == "UploadComplete"
InProgress == "InProgress"
Aborted == "Aborted"
JobComplete == "JobComplete"
Failed == "Failed"

JobStateEnum == {UploadComplete, InProgress, Aborted, JobComplete, Failed}

\* JobStateEnum is a string type: a decoded state may be any string
StateStrings == JobStateEnum \cup {"", "Open"}

IsFinishedNotFailed(j) ==
    j = Aborted \/ j = JobComplete

IsFinishedUnlessRunning(j) == j # UploadComplete /\ j # InProgress

IsFinishedNotAborted(j) == j = JobComplete \/ j = Failed

IsFinished(j) == j = JobComplete \/ j = Failed \/ j = Aborted

Errorf(text) == [type |-> "errorString", text |-> text]

ToErrorSwapped(j) ==
    CASE j = Aborted -> Errorf(<<"job failed">>)
      [] j = Failed -> Errorf(<<"job aborted">>)
      [] OTHER -> Nil

ToErrorOneText(j) ==
    CASE j = Aborted -> Errorf(<<"job failed">>)
      [] j = Failed -> Errorf(<<"job failed">>)
      [] OTHER -> Nil

ToError(j) ==
    CASE j = Aborted -> Errorf(<<"job aborted">>)
      [] j = Failed -> Errorf(<<"job failed">>)
      [] OTHER -> Nil

-----------------------------------------------------------------------------
(* Status Poller: GetStatus *)

\* two well-formed job ids and one holding a control character, with which
\* the URL cannot be parsed
BadId == "750<DEL>"
JobIds == {"750A", "750B", BadId}
SessionID == "sid"

\* job.client.makeURL(path): the path under the client's versioned base URL
makeURL(path) == <<"<base>">> \o path

\* the request job.client.httpRequest("GET", url, nil) sends
StatusRequest(j) ==
    [method |-> "GET", url |-> makeURL(<<"jobs/query", j.Id>>),
     query |-> {},
     headers |-> {<<"Authorization", <<"Bearer ", SessionID>>>>}]

\* response bodies of the status endpoint: a JSON object with or without a
\* (string) state field, an object whose state is a number, the platform's
\* error envelope (a JSON array) and text that is no JSON at all
StatusBodies ==
    {[kind |-> "object", state |-> s, processed |-> n] :
        s \in StateStrings \cup {Absent}, n \in {0, 7}}
    \cup {[kind |-> "numstate"], [kind |-> "envelope"], [kind |-> "text"]}

NoBody == [kind |-> "none"]

TransportErrors ==
    {[type |-> "url.Error", text |-> <<"Get: connection refused">>],
     [type |-> "SalesforceError", text |-> <<"INVALID_SESSION_ID">>]}

\* what job.client.httpRequest returns: (b, err)
HttpRequestOutcomes ==
    {[kind |-> "bytes", b |-> b, err |-> Nil] : b \in StatusBodies}
    \cup {[kind |-> "bytes", b |-> NoBody, err |-> e] : e \in TransportErrors}

\* json.Unmarshal(b, status) into a fresh BulkJobStatus
Unmarshal(b) ==
    CASE b.kind = "object" ->
            [status |-> [kind |-> "status",
                         State |-> IF b.state = Absent THEN "" ELSE b.state,
                         NumberRecordsProcessed |-> b.processed],
             err |-> Nil]
      [] b.kind = "text" ->
            [status |-> NoStatus,
             err |-> [type |-> "json.SyntaxError",
                      text |-> <<"invalid character">>]]
      [] OTHER ->
            [status |-> NoStatus,
             err |-> [type |-> "json.UnmarshalTypeError",
                      text |-> <<"json: cannot unmarshal ", b.kind>>]]

\* ParseSalesforceError(statusCode, body): the platform error read, as far
\* as it can be, from the raw body
ParseSalesforceError(code, b) ==
    [type |-> "SalesforceError", code |-> code, body |-> b]

\* errors.Join: the non-nil errors, nil when there is none
Join(a, b) ==
    LET es == SelectSeq(<<a, b>>, LAMBDA e : e # Nil)
    IN IF es = <<>> THEN Nil ELSE [type |-> "joinError", errs |-> es]

\* the BulkJobStatus objects are told apart by their addresses; the only
\* one alive besides the one GetStatus is filling is the one the caller kept
Addrs == {1, 2}

\* GetStatus decoding into one BulkJobStatus that it uses again every time
NewStatic(k) == 1

\* status := &BulkJobStatus{}: the address of a new object, which is not
\* the address of any object alive
New(k) == CHOOSE a \in Addrs : a # k.addr

\* json.Unmarshal(b, status) writes to the object at address a: what it
\* does to the snapshot the caller kept
Store(k, a) == IF k.addr = a THEN [k EXCEPT !.written = TRUE] ELSE k

\* the kept snapshot after GetStatus has dealt with `out`: nothing is
\* allocated or written when httpRequest failed
StatusStored(k, out) == IF out.err = Nil THEN Store(k, New(k)) ELSE k

\* GetStatus from the point httpRequest has returned `out`
GetStatusMissingDecodeErr(out) ==
    IF out.err # Nil
    THEN [status |-> NoStatus, err |-> out.err]
    ELSE LET u == Unmarshal(out.b)
         IN IF u.err # Nil
            THEN [status |-> NoStatus,
                  err |-> Join(ParseSalesforceError(0, out.b), Nil)]
            ELSE [status |-> u.status, err |-> Nil]

GetStatus(out) ==
    IF out.err # Nil
    THEN [status |-> NoStatus, err |-> out.err]
    ELSE LET u == Unmarshal(out.b)
         IN IF u.err # Nil
            THEN [status |-> NoStatus,
                  err |-> Join(ParseSalesforceError(0, out.b), u.err)]
            ELSE [status |-> u.status, err |-> Nil]

-----------------------------------------------------------------------------
(* strconv.Atoi, on strings given as sequences of characters *)

Digits == <<"0", "1", "2", "3", "4", "5", "6", "7", "8", "9">>
IsDigit(c) == \E i \in 1..10 : Digits[i] = c
DigitVal(c) == (CHOOSE i \in 1..10 : Digits[i] = c) - 1

\* the largest int, 2^(IntSize-1) - 1
HalfRange == 2 ^ (IntSize - 2)
MaxInt == (HalfRange - 1) * 2 + 1
MinInt == (-MaxInt) - 1

SyntaxError == [type |-> "strconv.NumError", text |-> <<"invalid syntax">>]
RangeError == [type |-> "strconv.NumError", text |-> <<"value out of range">>]

\* ParseUint's loop over the digits of s from position i, the value so far
\* being 2*h + b (an unsigned IntSize-bit number): it stops at the first
\* character that is no digit and at the first overflow
RECURSIVE ParseUintFrom(_, _, _, _)
ParseUintFrom(s, i, h, b) ==
    IF i > Len(s) THEN [h |-> h, b |-> b, err |-> Nil]
    ELSE IF ~IsDigit(s[i]) THEN [h |-> 0, b |-> 0, err |-> SyntaxError]
    ELSE LET low == b * 10 + DigitVal(s[i])
             carry == low \div 2
         IN IF h > (MaxInt - carry) \div 10
            THEN [h |-> MaxInt, b |-> 1, err |-> RangeError]
            ELSE ParseUintFrom(s, i + 1, h * 10 + carry, low % 2)

\* strconv.ParseInt(s, 10, 0)
ParseInt(s) ==
    IF s = <<>> THEN [n |-> 0, err |-> SyntaxError]
    ELSE LET neg == s[1] = "-"
             t == IF s[1] \in {"+", "-"} THEN Tail(s) ELSE s
             u == IF t = <<>>
                  THEN [h |-> 0, b |-> 0, err |-> SyntaxError]
                  ELSE ParseUintFrom(t, 1, 0, 0)
             half == HalfRange
         IN IF u.err = SyntaxError THEN [n |-> 0, err |-> SyntaxError]
            ELSE IF ~neg /\ u.h >= half
                 THEN [n |-> MaxInt, err |-> RangeError]
            ELSE IF neg /\ (u.h > half \/ (u.h = half /\ u.b = 1))
                 THEN [n |-> MinInt, err |-> RangeError]
            ELSE IF neg
                 THEN [n |-> IF u.h = half THEN MinInt ELSE -(2 * u.h + u.b),
                       err |-> Nil]
            ELSE [n |-> 2 * u.h + u.b, err |-> Nil]

\* Atoi's fast path, for strings short enough to fit an int
RECURSIVE AtoiFast(_, _, _)
AtoiFast(t, i, n) ==
    IF i > Len(t) THEN [n |-> n, err |-> Nil]
    ELSE IF ~IsDigit(t[i]) THEN [n |-> 0, err |-> SyntaxError]
    ELSE AtoiFast(t, i + 1, n * 10 + DigitVal(t[i]))

Atoi(s) ==
    IF 0 < Len(s) /\ Len(s) < (IF IntSize = 32 THEN 10 ELSE 19)
    THEN LET t == IF s[1] \in {"+", "-"} THEN Tail(s) ELSE s
         IN IF Len(t) < 1 THEN [n |-> 0, err |-> SyntaxError]
            ELSE LET r == AtoiFast(t, 1, 0)
                 IN IF r.err # Nil THEN r
                    ELSE [n |-> IF s[1] = "-" THEN -r.n ELSE r.n, err |-> Nil]
    ELSE ParseInt(s)

-----------------------------------------------------------------------------
(* Result Set Fetcher and Delete: requests, responses and their reading *)

\* continuation tokens, as strings of characters: <<>> is the empty string
Locators == {<<>>, <<"t", "1">>, <<"t", "2">>}

\* http.NewRequest(method, url, nil): fails on a URL it cannot parse
NewRequest(method, url) ==
    IF \E i \in 1..Len(url) : url[i] = BadId
    THEN [req |-> NoReq,
          err |-> [type |-> "url.Error",
                   text |-> <<"invalid control character in URL">>]]
    ELSE [req |-> [method |-> method, url |-> url, query |-> {},
                   headers |-> {}],
          err |-> Nil]

\* req.Header.Add(name, value)
HeaderAdd(r, name, value) ==
    [r EXCEPT !.headers = @ \cup {<<name, value>>}]

\* the request GetResultSet(locator) builds
ResultRequest(j, loc) ==
    LET n == NewRequest("GET", makeURL(<<"jobs/query", j.Id, "results">>))
    IN IF n.err # Nil THEN n
       ELSE [req |-> HeaderAdd(HeaderAdd(HeaderAdd(n.req,
                        "Content-Type", <<"application/json">>),
                        "Accept", <<"text/csv">>),
                        "Authorization", <<"Bearer ", SessionID>>),
             err |-> Nil]

\* Delete sending the DELETE verb
DeleteRequestDeleteVerb(j) ==
    LET n == NewRequest("DELETE", makeURL(<<"jobs/query", j.Id>>))
    IN IF n.err # Nil THEN n
       ELSE [req |-> HeaderAdd(HeaderAdd(n.req,
                        "Content-Type", <<"application/json">>),
                        "Authorization", <<"Bearer ", SessionID>>),
             err |-> Nil]

\* the request Delete() builds
DeleteRequest(j) ==
    LET n == NewRequest("GET", makeURL(<<"jobs/query", j.Id>>))
    IN IF n.err # Nil THEN n
       ELSE [req |-> HeaderAdd(HeaderAdd(n.req,
                        "Content-Type", <<"application/json">>),
                        "Authorization", <<"Bearer ", SessionID>>),
             err |-> Nil]

StatusCodes == {200, 399, 400, 500}

\* resp.Status, the status line the server sent with resp.StatusCode
StatusLine(code) ==
    CASE code = 200 -> "200 OK"
      [] code = 399 -> "399 "
      [] code = 400 -> "400 Bad Request"
      [] code = 500 -> "500 Internal Server Error"

\* resp.Body: the bytes the stream yields and then io.EOF (Nil) or an error
BodyStreams ==
    {[data |-> d, readErr |-> e] :
        d \in {"", "boom"},
        e \in {Nil, [type |-> "errorString", text |-> <<"unexpected EOF">>]}}

\* values the server gives Sforce-NumberOfRecords
RowValues ==
    {<<>>, <<"4", "2">>, <<"-", "7">>, <<"4", "x">>,
     <<"2", "1", "4", "7", "4", "8", "3", "6", "4", "8">>,
     <<"0", "0", "0", "0", "0", "0", "0", "0", "0", "4", "2">>}

RowsHeader == "Sforce-NumberOfRecords"
LocatorHeader == "Sforce-Locator"

\* response headers: each of the two names present or not
Headers ==
    {h \in UNION {[D -> RowValues \cup Locators] :
                    D \in SUBSET {RowsHeader, LocatorHeader}} :
        /\ RowsHeader \in DOMAIN h => h[RowsHeader] \in RowValues
        /\ LocatorHeader \in DOMAIN h => h[LocatorHeader] \in Locators \ {<<>>}}

\* resp.Header.Get(name): the empty string when the header is absent
HeaderGet(h, name) == IF name \in DOMAIN h THEN h[name] ELSE <<>>

HttpResponses ==
    {[StatusCode |-> c, Status |-> StatusLine(c), Body |-> b,
      ContentLength |-> n, Header |-> h] :
        c \in StatusCodes, b \in BodyStreams, n \in {-1, 4}, h \in Headers}

NoHttp == [StatusCode |-> 0]

\* what job.client.httpClient.Do(req) returns: (resp, err)
DoOutcomes ==
    {[kind |-> "do", r |-> r, err |-> Nil] : r \in HttpResponses}
    \cup {[kind |-> "do", r |-> NoHttp, err |-> e] : e \in TransportErrors}

\* io.ReadAll / io.Copy on a body: what was read, and the read error if any
ReadAll(body) == [data |-> body.data, err |-> body.readErr]

NoPage == [kind |-> "none"]

\* GetResultSet taking only statuses above 400 for failures
GetResultSetAbove(out) ==
    IF out.err # Nil THEN [page |-> NoPage, err |-> out.err]
    ELSE IF out.r.StatusCode > ErrorStatus
    THEN [page |-> NoPage,
          err |-> Errorf(<<"failed to get result set from bulk job: ",
                           out.r.Status, " body(",
                           ReadAll(out.r.Body).data, ")">>)]
    ELSE LET copied == ReadAll(out.r.Body)
         IN IF copied.err # Nil THEN [page |-> NoPage, err |-> copied.err]
            ELSE [page |->
                    [kind |-> "page",
                     Body |-> [data |-> copied.data,
                               presized |-> out.r.ContentLength > 0],
                     Next |-> HeaderGet(out.r.Header, LocatorHeader),
                     Rows |-> Atoi(HeaderGet(out.r.Header, RowsHeader)).n],
                  err |-> Nil]

\* GetResultSet from the point httpClient.Do has returned `out`
GetResultSet(out) ==
    IF out.err # Nil THEN [page |-> NoPage, err |-> out.err]
    ELSE IF out.r.StatusCode >= ErrorStatus
    THEN [page |-> NoPage,
          err |-> Errorf(<<"failed to get result set from bulk job: ",
                           out.r.Status, " body(",
                           ReadAll(out.r.Body).data, ")">>)]
    ELSE LET copied == ReadAll(out.r.Body)
         IN IF copied.err # Nil THEN [page |-> NoPage, err |-> copied.err]
            ELSE [page |->
                    [kind |-> "page",
                     Body |-> [data |-> copied.data,
                               presized |-> out.r.ContentLength > 0],
                     Next |-> HeaderGet(out.r.Header, LocatorHeader),
                     Rows |-> Atoi(HeaderGet(out.r.Header, RowsHeader)).n],
                  err |-> Nil]

\* Delete taking only the server's own errors (500 and above) for failures
DeleteServerErrorsOnly(out) ==
    IF out.err # Nil THEN out.err
    ELSE IF out.r.StatusCode >= 500
    THEN Errorf(<<"failed to delete bulk job: ", out.r.Status, " body(",
                  ReadAll(out.r.Body).data, ")">>)
    ELSE Nil

\* Delete from the point httpClient.Do has returned `out`
Delete(out) ==
    IF out.err # Nil THEN out.err
    ELSE IF out.r.StatusCode >= ErrorStatus
    THEN Errorf(<<"failed to delete bulk job: ", out.r.Status, " body(",
                  ReadAll(out.r.Body).data, ")">>)
    ELSE Nil

-----------------------------------------------------------------------------
(* Time Codec: SalesforceTime.UnmarshalJSON, on bytes given as sequences   *)
(* of characters. A time is its instant (the day since 1970-01-01 and the  *)
(* second and millisecond of that day, in UTC) and its zone offset.        *)

Quote == "\""
NullBytes == <<"n", "u", "l", "l">>

\* the zero time.Time: January 1 of year 1, 00:00:00 UTC
ZeroTime == [day |-> -719162, sec |-> 0, ms |-> 0, offset |-> 0]

ParseError == [type |-> "time.ParseError", text |-> <<"cannot parse">>]

IsLeap(y) == y % 4 = 0 /\ (y % 100 # 0 \/ y % 400 = 0)

\* time.daysIn(month, year)
DaysIn(m, y) ==
    IF m = 2 THEN (IF IsLeap(y) THEN 29 ELSE 28)
    ELSE IF m \in {4, 6, 9, 11} THEN 30 ELSE 31

\* time.Date(y, m, d, ...) in UTC: the day number of a civil date
DaysFromCivil(y, m, d) ==
    LET yy == IF m <= 2 THEN y - 1 ELSE y
        era == yy \div 400
        yoe == yy - era * 400
        mp == IF m > 2 THEN m - 3 ELSE m + 9
        doy == (153 * mp + 2) \div 5 + d - 1
        doe == yoe * 365 + yoe \div 4 - yoe \div 100 + doy
    IN era * 146097 + doe - 719468

DigitAt(s, i) == i <= Len(s) /\ IsDigit(s[i])

\* time.getnum: a number of two digits at s[i], of one digit too unless fixed
getnum(s, i, fixed) ==
    IF ~DigitAt(s, i) THEN [ok |-> FALSE, n |-> 0, next |-> i]
    ELSE IF ~DigitAt(s, i + 1)
    THEN (IF fixed THEN [ok |-> FALSE, n |-> 0, next |-> i]
          ELSE [ok |-> TRUE, n |-> DigitVal(s[i]), next |-> i + 1])
    ELSE [ok |-> TRUE, n |-> DigitVal(s[i]) * 10 + DigitVal(s[i + 1]),
          next |-> i + 2]

\* time.atoi on s[i..k]: an optional sign and digits only
RECURSIVE DigitsValue(_, _, _, _)
DigitsValue(s, i, k, n) ==
    IF i > k THEN [ok |-> TRUE, n |-> n]
    ELSE IF ~IsDigit(s[i]) THEN [ok |-> FALSE, n |-> 0]
    ELSE DigitsValue(s, i + 1, k, n * 10 + DigitVal(s[i]))

timeAtoi(s, i, k) ==
    LET signed == i <= k /\ s[i] \in {"+", "-"}
        v == DigitsValue(s, IF signed THEN i + 1 ELSE i, k, 0)
    IN IF (IF signed THEN i + 1 ELSE i) > k THEN [ok |-> FALSE, n |-> 0]
       ELSE IF ~v.ok THEN v
       ELSE [ok |-> TRUE, n |-> IF signed /\ s[i] = "-" THEN -v.n ELSE v.n]

\* the literal c of the layout at s[i]
Lit(s, i, c) == i <= Len(s) /\ s[i] = c

\* time.Parse(`"2006-01-02T15:04:05.000-0700"`, s): every element of the
\* layout in turn, then the range of the day and the shift by the offset
TimeParse(s) ==
    LET bad == [t |-> ZeroTime, err |-> ParseError]
        yearOk == Lit(s, 1, Quote) /\ Len(s) >= 5 /\ DigitAt(s, 2)
        year == timeAtoi(s, 2, 5)
        month == getnum(s, 7, TRUE)
        day == getnum(s, month.next + 1, TRUE)
        hour == getnum(s, day.next + 1, FALSE)
        min == getnum(s, hour.next + 1, TRUE)
        sec == getnum(s, min.next + 1, TRUE)
        f == sec.next
        frac == timeAtoi(s, f + 1, f + 3)
        z == f + 4
        zh == getnum(s, z + 1, TRUE)
        zm == getnum(s, z + 3, TRUE)
    IN IF ~(yearOk /\ year.ok) THEN bad
       ELSE IF ~(Lit(s, 6, "-") /\ month.ok /\ month.n >= 1 /\ month.n <= 12)
       THEN bad
       ELSE IF ~(Lit(s, month.next, "-") /\ day.ok) THEN bad
       ELSE IF ~(Lit(s, day.next, "T") /\ hour.ok /\ hour.n < 24) THEN bad
       ELSE IF ~(Lit(s, hour.next, ":") /\ min.ok /\ min.n < 60) THEN bad
       ELSE IF ~(Lit(s, min.next, ":") /\ sec.ok /\ sec.n < 60) THEN bad
       ELSE IF ~(Len(s) >= f + 3 /\ s[f] \in {".", ","}
                 /\ frac.ok /\ frac.n >= 0) THEN bad
       ELSE IF ~(Len(s) >= z + 4 /\ zh.ok /\ zm.ok /\ zh.n <= 24
                 /\ zm.n <= 60 /\ s[z] \in {"+", "-"}) THEN bad
       ELSE IF ~(Lit(s, z + 5, Quote) /\ Len(s) = z + 5) THEN bad
       ELSE IF day.n < 1 \/ day.n > DaysIn(month.n, year.n) THEN bad
       ELSE LET off == (IF s[z] = "-" THEN -1 ELSE 1)
                        * (zh.n * 60 + zm.n) * 60
                local == (hour.n * 60 + min.n) * 60 + sec.n
                utc == local - off
            IN [t |-> [day |-> DaysFromCivil(year.n, month.n, day.n)
                                + utc \div 86400,
                       sec |-> utc % 86400,
                       ms |-> frac.n,
                       offset |-> off],
                err |-> Nil]

\* UnmarshalJSON leaving the receiver alone on every input
UnmarshalJSONNoStore(t, b) ==
    IF b = NullBytes THEN [t |-> t, err |-> Nil]
    ELSE [t |-> t, err |-> TimeParse(b).err]

\* UnmarshalJSON storing the zero time on null
UnmarshalJSONNullZeroes(t, b) ==
    IF b = NullBytes THEN [t |-> ZeroTime, err |-> Nil]
    ELSE LET p == TimeParse(b)
         IN IF p.err # Nil THEN [t |-> t, err |-> p.err]
            ELSE [t |-> p.t, err |-> Nil]

\* (t *SalesforceTime).UnmarshalJSON(b): the receiver afterwards, and err
UnmarshalJSON(t, b) ==
    IF b = NullBytes THEN [t |-> t, err |-> Nil]
    ELSE LET p == TimeParse(b)
         IN IF p.err # Nil THEN [t |-> t, err |-> p.err]
            ELSE [t |-> p.t, err |-> Nil]

-----------------------------------------------------------------------------
(* The caller, the context and the status endpoint *)

\* ctx.Err() once the context is done
CtxErrors ==
    {[type |-> "errorString", text |-> <<"context canceled">>],
     [type |-> "deadlineExceededError",
      text |-> <<"context deadline exceeded">>]}

Jobs == {[Id |-> i, State |-> "UploadComplete"] : i \in JobIds}

\* the facade after construction: no call made yet
FacadeInit ==
    /\ job \in Jobs
    /\ op = "none"
    /\ pc = "idle"
    /\ locator = <<>>
    /\ ctxErr = Nil
    /\ req = NoReq
    /\ resp = NoResp
    /\ status = NoStatus
    /\ timer = 0
    /\ ret = NoRet
    /\ fetches = 0
    /\ sleeps = 0
    /\ answers = 0
    /\ others = 0
    /\ preCancelled = FALSE
    /\ lateCancel = FALSE
    /\ sent = {}
    /\ open = 0
    /\ kept = NoKept

\* nobody drains the results
NoDrain ==
    /\ draining = "off"
    /\ pages = 0
    /\ token = <<>>
    /\ received = <<>>

Init ==
    /\ FacadeInit
    /\ NoDrain
    /\ stateIn = ""
    /\ bytesIn = <<>>
    /\ timeRecv = ZeroTime
    /\ fnOut = NoOut

\* the finished call has returned and the caller is idle again
Returned ==
    /\ pc = "done"
    /\ op' = "none"
    /\ pc' = "idle"
    /\ locator' = <<>>
    /\ ctxErr' = Nil
    /\ req' = NoReq
    /\ resp' = NoResp
    /\ status' = NoStatus
    /\ timer' = 0
    /\ ret' = NoRet
    /\ fetches' = 0
    /\ sleeps' = 0
    /\ answers' = 0
    /\ others' = 0
    /\ preCancelled' = FALSE
    /\ lateCancel' = FALSE
    /\ UNCHANGED <<job, sent>>
    /\ UNCHANGED <<open, pureVars>>

\* the caller takes the result of the finished call and drops it
Return ==
    /\ Returned
    /\ UNCHANGED <<kept, drainVars>>

\* the caller takes the snapshot a GetStatus returned and keeps it, in the
\* place of the one it kept before
KeepSnapshot ==
    /\ op = "GetStatus"
    /\ pc = "done"
    /\ ret.err = Nil
    /\ Returned
    /\ kept' = [addr |-> ret.addr, written |-> FALSE]
    /\ UNCHANGED drainVars

\* the caller (or a deadline) ends the context of the running Wait
Cancel ==
    /\ op = "Wait"
    /\ pc # "done"
    /\ ctxErr = Nil
    /\ \E e \in CtxErrors : ctxErr' = e
    /\ lateCancel' = (pc \in {"request", "got"})
    /\ UNCHANGED <<job, op, pc, locator, req, resp, status, timer, ret,
                   fetches, sleeps, answers, others, preCancelled, sent>>
    /\ UNCHANGED <<open, kept, drainVars, pureVars>>

\* the transport returns from job.client.httpRequest
StatusResponse ==
    /\ op \in {"GetStatus", "Wait"}
    /\ pc = "request"
    /\ \E out \in HttpRequestOutcomes :
        /\ resp' = out
        /\ answers' = IF /\ op = "Wait" /\ out.err = Nil
                         /\ out.b.kind = "object"
                         /\ out.b.state \in {UploadComplete, InProgress}
                      THEN Inc(answers) ELSE answers
        /\ others' = IF /\ op = "Wait" /\ out.err = Nil
                        /\ out.b.kind = "object"
                        /\ out.b.state \notin JobStateEnum
                     THEN Inc(others) ELSE others
    /\ pc' = "got"
    /\ UNCHANGED <<job, op, locator, ctxErr, req, status, timer, ret,
                   fetches, sleeps, preCancelled, lateCancel, sent>>
    /\ UNCHANGED <<open, kept, drainVars, pureVars>>

-----------------------------------------------------------------------------
(* Status Poller: GetStatus as an operation of its own *)

GetStatusCall ==
    /\ op = "none"
    /\ op' = "GetStatus"
    /\ pc' = "request"
    /\ req' = StatusRequest(job)
    /\ UNCHANGED <<job, locator, ctxErr, resp, status, timer, ret, fetches,
                   sleeps, answers, others, preCancelled, lateCancel, sent>>
    /\ UNCHANGED <<open, kept, drainVars, pureVars>>

GetStatusReturn ==
    /\ op = "GetStatus"
    /\ pc = "got"
    /\ LET g == GetStatus(resp)
       IN ret' = [kind |-> "GetStatus", status |-> g.status,
                  addr |-> IF g.err = Nil THEN New(kept) ELSE 0,
                  err |-> g.err]
    /\ kept' = StatusStored(kept, resp)
    /\ pc' = "done"
    /\ UNCHANGED <<job, op, locator, ctxErr, req, resp, status, timer,
                   fetches, sleeps, answers, others, preCancelled,
                   lateCancel, sent>>
    /\ UNCHANGED <<open, drainVars, pureVars>>

-----------------------------------------------------------------------------
(* Status Poller: Wait *)

WaitRet(e) == [kind |-> "Wait", err |-> e]

\* Wait(ctx) is called, with a context that may be done already
WaitCall ==
    /\ op = "none"
    /\ op' = "Wait"
    /\ pc' = "check"
    /\ \E c \in CtxErrors \cup {Nil} :
        /\ ctxErr' = c
        /\ preCancelled' = (c # Nil)
    /\ UNCHANGED <<job, locator, req, resp, status, timer, ret, fetches,
                   sleeps, answers, others, lateCancel, sent>>
    /\ UNCHANGED <<open, kept, drainVars, pureVars>>

\* WaitCheck with the select skipped on the first iteration
WaitCheckAfterFirstFetch ==
    /\ op = "Wait"
    /\ pc = "check"
    /\ IF ctxErr # Nil /\ fetches > 0
       THEN /\ pc' = "done"
            /\ ret' = WaitRet(ctxErr)
            /\ UNCHANGED <<req, fetches, lateCancel>>
       ELSE /\ pc' = "request"
            /\ req' = StatusRequest(job)
            /\ fetches' = Inc(fetches)
            /\ lateCancel' = FALSE
            /\ ret' = ret
    /\ UNCHANGED <<job, op, locator, ctxErr, resp, status, timer, sleeps,
                   answers, others, preCancelled, sent>>
    /\ UNCHANGED <<open, kept, drainVars, pureVars>>

\* the select at the head of the loop, and the request GetStatus sends
WaitCheck ==
    /\ op = "Wait"
    /\ pc = "check"
    /\ IF ctxErr # Nil
       THEN /\ pc' = "done"
            /\ ret' = WaitRet(ctxErr)
            /\ UNCHANGED <<req, fetches, lateCancel>>
       ELSE /\ pc' = "request"
            /\ req' = StatusRequest(job)
            /\ fetches' = Inc(fetches)
            /\ lateCancel' = FALSE
            /\ ret' = ret
    /\ UNCHANGED <<job, op, locator, ctxErr, resp, status, timer, sleeps,
                   answers, others, preCancelled, sent>>
    /\ UNCHANGED <<open, kept, drainVars, pureVars>>

\* WaitDecide sleeping and polling again after a failed GetStatus
WaitDecideRetry ==
    /\ op = "Wait"
    /\ pc = "got"
    /\ LET g == GetStatus(resp)
       IN /\ status' = g.status
          /\ IF g.err = Nil /\ IsFinished(g.status.State)
             THEN /\ pc' = "done"
                  /\ ret' = WaitRet(ToError(g.status.State))
                  /\ timer' = timer
             ELSE /\ pc' = "sleep"
                  /\ timer' = SleepSeconds
                  /\ ret' = ret
    /\ UNCHANGED <<job, op, locator, ctxErr, req, resp, fetches, sleeps,
                   answers, others, preCancelled, lateCancel, sent>>
    /\ kept' = StatusStored(kept, resp)
    /\ UNCHANGED <<open, drainVars, pureVars>>

\* WaitDecide looking at the context again once GetStatus has returned
WaitDecideCtxFirst ==
    /\ op = "Wait"
    /\ pc = "got"
    /\ LET g == GetStatus(resp)
       IN /\ status' = g.status
          /\ IF ctxErr # Nil
             THEN pc' = "done" /\ ret' = WaitRet(ctxErr) /\ timer' = timer
             ELSE IF g.err # Nil
             THEN pc' = "done" /\ ret' = WaitRet(g.err) /\ timer' = timer
             ELSE IF IsFinished(g.status.State)
             THEN /\ pc' = "done"
                  /\ ret' = WaitRet(ToError(g.status.State))
                  /\ timer' = timer
             ELSE /\ pc' = "sleep"
                  /\ timer' = SleepSeconds
                  /\ ret' = ret
    /\ UNCHANGED <<job, op, locator, ctxErr, req, resp, fetches, sleeps,
                   answers, others, preCancelled, lateCancel, sent>>
    /\ kept' = StatusStored(kept, resp)
    /\ UNCHANGED <<open, drainVars, pureVars>>

\* GetStatus has the transport's answer: decode it and act on it
WaitDecide ==
    /\ op = "Wait"
    /\ pc = "got"
    /\ LET g == GetStatus(resp)
       IN IF g.err # Nil
          THEN /\ pc' = "done"
               /\ ret' = WaitRet(g.err)
               /\ status' = g.status
               /\ timer' = timer
          ELSE /\ status' = g.status
               /\ IF IsFinished(g.status.State)
                  THEN /\ pc' = "done"
                       /\ ret' = WaitRet(ToError(g.status.State))
                       /\ timer' = timer
                  ELSE /\ pc' = "sleep"
                       /\ timer' = SleepSeconds
                       /\ ret' = ret
    /\ UNCHANGED <<job, op, locator, ctxErr, req, resp, fetches, sleeps,
                   answers, others, preCancelled, lateCancel, sent>>
    /\ kept' = StatusStored(kept, resp)
    /\ UNCHANGED <<open, drainVars, pureVars>>

\* a second of time.Sleep passes
WaitTick ==
    /\ op = "Wait"
    /\ pc = "sleep"
    /\ timer > 0
    /\ timer' = timer - 1
    /\ UNCHANGED <<job, op, pc, locator, ctxErr, req, resp, status, ret,
                   fetches, sleeps, answers, others, preCancelled,
                   lateCancel, sent>>
    /\ UNCHANGED <<open, kept, drainVars, pureVars>>

\* WaitWake giving up after a fixed number of polls
WaitWakeCapped ==
    /\ op = "Wait"
    /\ pc = "sleep"
    /\ timer = 0
    /\ IF sleeps >= 2
       THEN pc' = "done" /\ ret' = WaitRet(Errorf(<<"timed out">>))
       ELSE pc' = "check" /\ ret' = ret
    /\ sleeps' = Inc(sleeps)
    /\ UNCHANGED <<job, op, locator, ctxErr, req, resp, status, timer,
                   fetches, answers, others, preCancelled, lateCancel, sent>>
    /\ UNCHANGED <<open, kept, drainVars, pureVars>>

\* time.Sleep returns and the loop starts over
WaitWake ==
    /\ op = "Wait"
    /\ pc = "sleep"
    /\ timer = 0
    /\ pc' = "check"
    /\ sleeps' = Inc(sleeps)
    /\ UNCHANGED <<job, op, locator, ctxErr, req, resp, status, timer, ret,
                   fetches, answers, others, preCancelled, lateCancel, sent>>
    /\ UNCHANGED <<open, kept, drainVars, pureVars>>

-----------------------------------------------------------------------------
(* Result Set Fetcher: GetResultSet, and Delete *)

\* the transport returns from job.client.httpClient.Do
DoResponse ==
    /\ op \in {"GetResultSet", "Delete"}
    /\ pc = "request"
    /\ \E out \in DoOutcomes :
        /\ resp' = out
        /\ open' = IF out.err = Nil THEN Opened(open) ELSE open
    /\ pc' = "got"
    /\ UNCHANGED <<job, op, locator, ctxErr, req, status, timer, ret,
                   fetches, sleeps, answers, others, preCancelled,
                   lateCancel, sent>>
    /\ UNCHANGED <<kept, drainVars, pureVars>>

\* GetResultSet(loc) is called: the request is built and handed to Do
GetResultSetCalled(loc) ==
    /\ op = "none"
    /\ op' = "GetResultSet"
    /\ locator' = loc
    /\ LET n == ResultRequest(job, loc)
       IN IF n.err # Nil
          THEN /\ pc' = "done"
               /\ ret' = [kind |-> "GetResultSet", page |-> NoPage,
                          err |-> n.err]
               /\ UNCHANGED <<req, sent>>
          ELSE /\ pc' = "request"
               /\ req' = n.req
               /\ sent' = sent \cup {[locator |-> loc, req |-> n.req]}
               /\ ret' = ret
    /\ UNCHANGED <<job, ctxErr, resp, status, timer, fetches, sleeps,
                   answers, others, preCancelled, lateCancel>>
    /\ UNCHANGED <<open, kept, pureVars>>

GetResultSetCall ==
    /\ \E loc \in Locators : GetResultSetCalled(loc)
    /\ UNCHANGED drainVars

GetResultSetReturn ==
    /\ op = "GetResultSet"
    /\ pc = "got"
    /\ LET g == GetResultSet(resp)
       IN ret' = [kind |-> "GetResultSet", page |-> g.page, err |-> g.err]
    /\ pc' = "done"
    /\ UNCHANGED <<job, op, locator, ctxErr, req, resp, status, timer,
                   fetches, sleeps, answers, others, preCancelled,
                   lateCancel, sent>>
    \* the body of resp is left as it is: there is no resp.Body.Close()
    /\ UNCHANGED <<open, kept, drainVars, pureVars>>

DeleteCall ==
    /\ op = "none"
    /\ op' = "Delete"
    /\ LET n == DeleteRequest(job)
       IN IF n.err # Nil
          THEN /\ pc' = "done"
               /\ ret' = [kind |-> "Delete", err |-> n.err]
               /\ req' = req
          ELSE /\ pc' = "request"
               /\ req' = n.req
               /\ ret' = ret
    /\ UNCHANGED <<job, locator, ctxErr, resp, status, timer, fetches,
                   sleeps, answers, others, preCancelled, lateCancel, sent>>
    /\ UNCHANGED <<open, kept, drainVars, pureVars>>

DeleteReturn ==
    /\ op = "Delete"
    /\ pc = "got"
    /\ ret' = [kind |-> "Delete", err |-> Delete(resp)]
    /\ pc' = "done"
    /\ UNCHANGED <<job, op, locator, ctxErr, req, resp, status, timer,
                   fetches, sleeps, answers, others, preCancelled,
                   lateCancel, sent>>
    \* the body of resp is left as it is: there is no resp.Body.Close()
    /\ UNCHANGED <<open, kept, drainVars, pureVars>>

-----------------------------------------------------------------------------
Next ==
    \/ DoResponse
    \/ GetResultSetCall
    \/ GetResultSetReturn
    \/ DeleteCall
    \/ DeleteReturn
    \/ Return
    \/ Cancel
    \/ StatusResponse
    \/ GetStatusCall
    \/ GetStatusReturn
    \/ WaitCall
    \/ WaitCheck
    \/ WaitDecide
    \/ WaitTick
    \/ WaitWake

Spec == Init /\ [][Next]_vars

-----------------------------------------------------------------------------
(* Draining the results: the caller's loop over GetResultSet, which starts *)
(* with the empty token and passes the Next of each page to the next call  *)
(* until a page has none, against a server that holds `pages` pages        *)

\* the body of page i
PageData(i) == <<"page", i>>

\* the token the server hands out with page i, which asks for page i + 1
TokenAfter(i) == <<"t", Digits[i + 1]>>

\* the page a request asks the server for: the one after the page whose
\* token the request carries in its query, the first without a token
PageAsked(r, n) ==
    LET asked == {i \in 1..(n - 1) : \E q \in r.query : q[2] = TokenAfter(i)}
    IN IF asked = {} THEN 1 ELSE (CHOOSE i \in asked : TRUE) + 1

\* the response that carries page i of n: 200 OK, the row count, and the
\* Sforce-Locator header on every page but the last
PageResponse(i, n) ==
    [StatusCode |-> 200, Status |-> StatusLine(200),
     Body |-> [data |-> PageData(i), readErr |-> Nil],
     ContentLength |-> -1,
     Header |-> IF i < n
                THEN [h \in {RowsHeader, LocatorHeader} |->
                        IF h = RowsHeader THEN <<"4", "2">>
                        ELSE TokenAfter(i)]
                ELSE [h \in {RowsHeader} |-> <<"4", "2">>]]

DrainInit ==
    /\ FacadeInit
    /\ draining = "run"
    /\ pages \in 1..MaxPages
    /\ token = <<>>
    /\ received = <<>>
    /\ stateIn = ""
    /\ bytesIn = <<>>
    /\ timeRecv = ZeroTime
    /\ fnOut = NoOut

\* the loop calls GetResultSet with the token it holds
DrainCall ==
    /\ draining = "run"
    /\ Len(received) <= MaxPages
    /\ GetResultSetCalled(token)
    /\ UNCHANGED drainVars

\* the server answers with the page the request asks for
ServePage ==
    /\ draining = "run"
    /\ op = "GetResultSet"
    /\ pc = "request"
    /\ resp' = [kind |-> "do",
                r |-> PageResponse(PageAsked(req, pages), pages),
                err |-> Nil]
    /\ open' = Opened(open)
    /\ pc' = "got"
    /\ UNCHANGED <<job, op, locator, ctxErr, req, status, timer, ret,
                   fetches, sleeps, answers, others, preCancelled,
                   lateCancel, sent>>
    /\ UNCHANGED <<kept, drainVars, pureVars>>

\* the loop takes what GetResultSet returned: it gives up on an error,
\* else it has one more page and goes on if the page names a next one
DrainTake ==
    /\ draining = "run"
    /\ op = "GetResultSet"
    /\ Returned
    /\ IF ret.err # Nil
       THEN /\ draining' = "failed"
            /\ UNCHANGED <<token, received>>
       ELSE /\ received' = Append(received, ret.page.Body.data)
            /\ token' = ret.page.Next
            /\ draining' = IF ret.page.Next = <<>> THEN "drained" ELSE "run"
    /\ UNCHANGED <<pages, kept>>

DrainNext ==
    \/ DrainCall
    \/ ServePage
    \/ GetResultSetReturn
    \/ DrainTake

DrainSpec == DrainInit /\ [][DrainNext]_vars

\* the caller that keeps the snapshots GetStatus returns, on one job
SnapshotInit == Init /\ job.Id = "750A"

SnapshotNext ==
    \/ Next
    \/ KeepSnapshot

SnapshotSpec == SnapshotInit /\ [][SnapshotNext]_vars

\* one Wait after another, every step of Wait and of the transport fair:
\* the goroutine is scheduled, the request completes, the sleep ends
WaitNext ==
    \/ WaitCall
    \/ Cancel
    \/ StatusResponse
    \/ WaitCheck
    \/ WaitDecide
    \/ WaitTick
    \/ WaitWake
    \/ Return

LiveSpec ==
    /\ Init
    /\ [][WaitNext]_vars
    /\ WF_vars(StatusResponse)
    /\ WF_vars(WaitCheck)
    /\ WF_vars(WaitDecide)
    /\ WF_vars(WaitTick)
    /\ WF_vars(WaitWake)

-----------------------------------------------------------------------------
(* The pure functions applied to inputs drawn from bounded sets: the state *)
(* functions to a state string, UnmarshalJSON to bytes put together from   *)
(* a date, a time of day, a fraction and a zone, each with what it denotes *)

\* dates: the text, whether it is a date, its day number since 1970-01-01
DateParts ==
    {[text |-> <<"2", "0", "2", "3", "-", "1", "2", "-", "0", "2">>, good |-> TRUE, day |-> 19693],
     [text |-> <<"2", "0", "2", "4", "-", "0", "2", "-", "2", "9">>, good |-> TRUE, day |-> 19782],
     [text |-> <<"2", "0", "2", "3", "-", "0", "2", "-", "2", "9">>, good |-> FALSE, day |-> 0],
     [text |-> <<"2", "0", "2", "3", "-", "1", "3", "-", "0", "1">>, good |-> FALSE, day |-> 0]}

\* times of day: the text, whether it is one, its second of the day
ClockParts ==
    {[text |-> <<"0", "2", ":", "3", "0", ":", "0", "2">>, good |-> TRUE, sec |-> 9002],
     [text |-> <<"2", "3", ":", "5", "9", ":", "5", "9">>, good |-> TRUE, sec |-> 86399],
     [text |-> <<"2", "4", ":", "0", "0", ":", "0", "0">>, good |-> FALSE, sec |-> 0]}

\* fractions of a second: the text, whether it has three digits, the milliseconds
FracParts ==
    {[text |-> <<".", "0", "0", "0">>, good |-> TRUE, ms |-> 0],
     [text |-> <<".", "1", "2", "3">>, good |-> TRUE, ms |-> 123],
     [text |-> <<>>, good |-> FALSE, ms |-> 0]}

\* zones: the text, its form (numeric offset, Z, offset with a colon), the offset in seconds
ZoneParts ==
    {[text |-> <<"+", "0", "0", "0", "0">>, form |-> "numeric", off |-> 0],
     [text |-> <<"-", "0", "7", "0", "0">>, form |-> "numeric", off |-> -25200],
     [text |-> <<"+", "0", "5", "3", "0">>, form |-> "numeric", off |-> 19800],
     [text |-> <<"Z">>, form |-> "Z", off |-> 0],
     [text |-> <<"+", "0", "0", ":", "0", "0">>, form |-> "colon", off |-> 0],
     [text |-> <<"-", "0", "7", ":", "0", "0">>, form |-> "colon", off |-> 0]}

\* the timestamp made of the four parts, in quotes or bare
Timestamp(q, d, c, f, z) ==
    q \o d.text \o <<"T">> \o c.text \o f.text \o z.text \o q

TimeInputs ==
    {NullBytes} \cup
    {Timestamp(q, d, c, f, z) :
        q \in {<<Quote>>, <<>>}, d \in DateParts, c \in ClockParts,
        f \in FracParts, z \in ZoneParts}

\* receivers: a fresh SalesforceTime and one that holds a time already
Receivers == {ZeroTime, [day |-> 19693, sec |-> 9002, ms |-> 0, offset |-> 0]}

PureInit ==
    /\ FacadeInit
    /\ NoDrain
    /\ stateIn \in StateStrings
    /\ bytesIn \in TimeInputs
    /\ timeRecv \in Receivers
    /\ fnOut = NoOut

facadeVars == <<job, op, pc, locator, ctxErr, req, resp, status, timer, ret,
                fetches, sleeps, answers, others, preCancelled, lateCancel,
                sent, open, kept, drainVars>>

ApplyIsFinished ==
    /\ fnOut = NoOut
    /\ fnOut' = [fn |-> "IsFinished", finished |-> IsFinished(stateIn)]
    /\ UNCHANGED <<facadeVars, stateIn, bytesIn, timeRecv>>

ApplyToError ==
    /\ fnOut = NoOut
    /\ fnOut' = [fn |-> "ToError", err |-> ToError(stateIn)]
    /\ UNCHANGED <<facadeVars, stateIn, bytesIn, timeRecv>>

ApplyUnmarshalJSON ==
    /\ fnOut = NoOut
    /\ LET u == UnmarshalJSON(timeRecv, bytesIn)
       IN /\ timeRecv' = u.t
          /\ fnOut' = [fn |-> "UnmarshalJSON", err |-> u.err,
                       before |-> timeRecv]
    /\ UNCHANGED <<facadeVars, stateIn, bytesIn>>

PureNext ==
    \/ ApplyIsFinished
    \/ ApplyToError
    \/ ApplyUnmarshalJSON

PureSpec == PureInit /\ [][PureNext]_vars

-----------------------------------------------------------------------------
(* Vocabulary of the properties: what the endpoint served, told from the     *)
(* response itself rather than from what the code decoded                    *)

TerminalStates == {Aborted, JobComplete, Failed}

\* the response is a decodable status
Decodable(out) == out.kind = "bytes" /\ out.err = Nil /\ out.b.kind = "object"

\* the transport failed or the body is no status
FetchFailed(out) == out.kind = "bytes" /\ ~Decodable(out)

ServedTerminal(out) == Decodable(out) /\ out.b.state \in TerminalStates

JobFailedError == [type |-> "errorString", text |-> <<"job failed">>]
JobAbortedError == [type |-> "errorString", text |-> <<"job aborted">>]

\* the error a terminal state stands for
OutcomeOf(state) ==
    IF state = Failed THEN JobFailedError
    ELSE IF state = Aborted THEN JobAbortedError ELSE Nil

WaitDone == op = "Wait" /\ pc = "done"

-----------------------------------------------------------------------------
(* C1: Wait looks at the context at the head of every iteration; if the    *)
(* context is done there, Wait returns ctx.Err() and sends nothing more. A *)
(* Wait called with a context that is already done sends no request.       *)
WaitHonoursCancelAtCheck ==
    /\ [][(op = "Wait" /\ pc = "check" /\ ctxErr # Nil)
            => \/ UNCHANGED <<op, pc, ret, req, fetches>>
               \/ /\ pc' = "done"
                  /\ ret' = WaitRet(ctxErr)
                  /\ fetches' = fetches
                  /\ req' = req]_vars
    /\ [][WaitDone => (fetches' = fetches \/ op' = "none")]_vars
    /\ [](op = "Wait" /\ preCancelled
            => /\ fetches = 0
               /\ req = NoReq
               /\ pc \in {"check", "done"}
               /\ (pc = "done" => ret = WaitRet(ctxErr)))

WaitPreCancelledReturned ==
    /\ WaitDone
    /\ preCancelled
    /\ ret.err \in CtxErrors
    /\ fetches = 0

(* C2: when the endpoint serves k times UploadComplete or InProgress and    *)
(* then a terminal state s, Wait has made k+1 status requests and k sleeps *)
(* when it returns, and it returns the error s stands for.                 *)
WaitPollsUntilTerminal ==
    (WaitDone /\ ServedTerminal(resp) /\ others = 0 /\ fetches < MaxCount)
        => /\ fetches = answers + 1
           /\ sleeps = answers
           /\ ret = WaitRet(OutcomeOf(resp.b.state))

WaitTwoSleepsThenComplete ==
    /\ WaitDone
    /\ ServedTerminal(resp)
    /\ resp.b.state = JobComplete
    /\ answers = 2
    /\ fetches = 3
    /\ sleeps = 2
    /\ ret.err = Nil

(* C3: Wait returns nil only when the last status it fetched is            *)
(* JobComplete, the job-failed error only when it is Failed, the           *)
(* job-aborted error only when it is Aborted; never a job outcome error on *)
(* a non-terminal state, on cancellation or on a failed fetch.             *)
WaitOutcomeSound ==
    WaitDone =>
        /\ ret.err = Nil
            => /\ Decodable(resp) /\ resp.b.state = JobComplete
               /\ status # NoStatus /\ status.State = JobComplete
        /\ ret.err = JobFailedError
            => /\ Decodable(resp) /\ resp.b.state = Failed
               /\ status # NoStatus /\ status.State = Failed
        /\ ret.err = JobAbortedError
            => /\ Decodable(resp) /\ resp.b.state = Aborted
               /\ status # NoStatus /\ status.State = Aborted
        /\ (resp = NoResp \/ FetchFailed(resp) \/ ~ServedTerminal(resp))
            => ret.err \notin {JobFailedError, JobAbortedError}

WaitReturnedJobFailed ==
    /\ WaitDone
    /\ ret.err = JobFailedError
    /\ sleeps >= 1
    /\ Decodable(resp) /\ resp.b.state = Failed

(* C4: when a GetStatus made by Wait fails, Wait returns that error at     *)
(* once: no retry, no sleep, no further request.                           *)
WaitReturnsFetchError ==
    /\ [][(op = "Wait" /\ pc = "got" /\ FetchFailed(resp))
            => \/ UNCHANGED <<op, pc, ret, fetches, sleeps, timer>>
               \/ /\ pc' = "done"
                  /\ ret' = WaitRet(GetStatus(resp).err)
                  /\ ret'.err # Nil
                  /\ UNCHANGED <<fetches, sleeps, timer, req>>]_vars
    /\ [](WaitDone /\ FetchFailed(resp)
            => /\ ret.err # Nil
               /\ resp.err # Nil => ret.err = resp.err)

WaitReturnedTransportError ==
    /\ WaitDone
    /\ resp.kind = "bytes"
    /\ resp.err \in TransportErrors
    /\ ret = WaitRet(resp.err)
    /\ fetches = 2
    /\ sleeps = 1

(* C5: Wait ends exactly when the job ends or the caller cancels. Under    *)
(* fair scheduling a done context leads to Wait's return and so does a     *)
(* terminal answer; and Wait returns for no other reason than a done       *)
(* context, a terminal answer or a failed fetch: there is no cap on the    *)
(* number of iterations.                                                   *)
WaitTerminatesOnlyOnOutcome ==
    /\ (op = "Wait" /\ ctxErr # Nil) ~> WaitDone
    /\ (op = "Wait" /\ pc = "got" /\ ServedTerminal(resp)) ~> WaitDone
    /\ [](WaitDone =>
            \/ ctxErr # Nil /\ ret = WaitRet(ctxErr)
            \/ ServedTerminal(resp)
            \/ FetchFailed(resp))
    /\ [][(op = "Wait" /\ pc = "sleep" /\ pc' # "sleep") => pc' = "check"]_vars

WaitCancelledAfterManyPolls ==
    /\ WaitDone
    /\ ret.err \in CtxErrors
    /\ sleeps = MaxCount
    /\ fetches = MaxCount
    /\ others = 0

(* C6: cancellation is honoured only at the head of an iteration. A        *)
(* context that becomes done while a status request is under way does not  *)
(* stop that request: its result is acted on, a terminal state returns the *)
(* job's outcome and not the cancellation error, a non-terminal state is   *)
(* followed by the whole sleep before the cancellation error is returned.  *)
WaitCancelOnlyAtBoundary ==
    /\ [](WaitDone /\ lateCancel /\ ServedTerminal(resp)
            => ret = WaitRet(OutcomeOf(resp.b.state)))
    /\ [](WaitDone /\ lateCancel /\ Decodable(resp) /\ ~ServedTerminal(resp)
            => ret = WaitRet(ctxErr) /\ sleeps >= 1 /\ timer = 0)
    /\ [][(op = "Wait" /\ pc # "done" /\ pc' = "done"
           /\ ret'.err \in CtxErrors) => pc = "check"]_vars
    /\ [][(op = "Wait" /\ pc # "sleep" /\ pc' = "sleep")
            => timer' = SleepSeconds]_vars
    /\ [][(op = "Wait" /\ pc = "sleep")
            => /\ timer' >= timer - 1
               /\ pc' # "sleep" => (timer = 0 /\ pc' = "check")]_vars

WaitOutcomeDespiteLateCancel ==
    /\ WaitDone
    /\ lateCancel
    /\ ctxErr # Nil
    /\ ServedTerminal(resp)
    /\ resp.b.state = JobComplete
    /\ ret.err = Nil

-----------------------------------------------------------------------------
(* Vocabulary of the properties about requests, error texts and numbers *)

\* the token travels with the request, as a header value or a query value
TokenAttached(r, tok) ==
    \/ \E h \in r.headers : h[2] = tok
    \/ \E q \in r.query : q[2] = tok

\* the error text holds the piece x
Contains(text, x) == \E i \in 1..Len(text) : text[i] = x

ResultSetDone == op = "GetResultSet" /\ pc = "done" /\ resp.kind = "do"

\* s is an optional sign and at least one digit
IsIntegerText(s) ==
    LET t == IF s # <<>> /\ s[1] \in {"+", "-"} THEN Tail(s) ELSE s
    IN t # <<>> /\ \A i \in 1..Len(t) : IsDigit(t[i])

RECURSIVE StripZeros(_)
StripZeros(t) ==
    IF Len(t) > 1 /\ t[1] = "0" THEN StripZeros(Tail(t)) ELSE t

\* the shortest decimal text of the integer s denotes
Canonical(s) ==
    LET neg == s[1] = "-"
        t == StripZeros(IF s[1] \in {"+", "-"} THEN Tail(s) ELSE s)
    IN IF neg /\ t # <<"0">> THEN <<"-">> \o t ELSE t

RECURSIVE DecimalNat(_)
DecimalNat(n) ==
    IF n < 10 THEN <<Digits[n + 1]>>
    ELSE DecimalNat(n \div 10) \o <<Digits[(n % 10) + 1]>>

\* the decimal text of the int n
Decimal(n) ==
    IF n >= 0 THEN DecimalNat(n)
    ELSE IF n = MinInt
         THEN <<"-">> \o DecimalNat(MaxInt \div 10)
                      \o <<Digits[(MaxInt % 10) + 2]>>
         ELSE <<"-">> \o DecimalNat(-n)

(* C7: a GetResultSet call with a non-empty continuation token sends the   *)
(* token with its request, so that calls on the same job with different    *)
(* tokens send different requests.                                         *)
ResultRequestCarriesLocator ==
    /\ \A p \in sent : p.locator # <<>> => TokenAttached(p.req, p.locator)
    /\ \A p, q \in sent : p.locator # q.locator => p.req # q.req

(* C8: GetResultSet fails on every response status of 400 and above, with  *)
(* no page and an error text holding the status line and the body read;    *)
(* on every status below 400 whose body reads to its end it returns a page *)
(* and no error.                                                           *)
ResultSetFailsFromStatus400 ==
    (ResultSetDone /\ resp.err = Nil) =>
        /\ resp.r.StatusCode >= 400
            => /\ ret.page = NoPage
               /\ ret.err # Nil
               /\ Contains(ret.err.text, resp.r.Status)
               /\ Contains(ret.err.text, resp.r.Body.data)
        /\ (resp.r.StatusCode < 400 /\ resp.r.Body.readErr = Nil)
            => /\ ret.err = Nil
               /\ ret.page # NoPage
               /\ ret.page.Body.data = resp.r.Body.data

ResultSetStatus500Boom ==
    /\ ResultSetDone
    /\ resp.err = Nil
    /\ resp.r.StatusCode = 500
    /\ resp.r.Body.data = "boom"
    /\ ret.page = NoPage
    /\ ret.err.text[2] = "500 Internal Server Error"
    /\ ret.err.text[4] = "boom"

(* C9: on success Rows is the integer the Sforce-NumberOfRecords header    *)
(* denotes when the header is an integer, and 0 when it is missing or no   *)
(* integer; Next is the Sforce-Locator header, empty when absent; a        *)
(* missing or unreadable record count never fails the call.                *)
ResultSetRowsAndNext ==
    (ResultSetDone /\ resp.err = Nil /\ resp.r.StatusCode < 400
     /\ resp.r.Body.readErr = Nil) =>
        LET h == resp.r.Header
            rows == IF RowsHeader \in DOMAIN h THEN h[RowsHeader] ELSE <<>>
        IN /\ ret.err = Nil
           /\ ret.page # NoPage
           /\ IF IsIntegerText(rows)
              THEN Decimal(ret.page.Rows) = Canonical(rows)
              ELSE ret.page.Rows = 0
           /\ ret.page.Next =
                IF LocatorHeader \in DOMAIN h THEN h[LocatorHeader] ELSE <<>>

(* C10: GetStatus on a body that is no status returns no status and an     *)
(* error joining the platform error read from the raw body with the JSON   *)
(* decode error; on a transport failure it returns that error itself and   *)
(* no status.                                                              *)
GetStatusErrors ==
    (op = "GetStatus" /\ pc = "done") =>
        /\ resp.err # Nil
            => ret.status = NoStatus /\ ret.err = resp.err
        /\ (resp.err = Nil /\ resp.b.kind # "object")
            => /\ ret.status = NoStatus
               /\ ret.err.type = "joinError"
               /\ \E i \in 1..Len(ret.err.errs) :
                    /\ ret.err.errs[i].type = "SalesforceError"
                    /\ ret.err.errs[i].body = resp.b
               /\ \E i \in 1..Len(ret.err.errs) :
                    ret.err.errs[i].type \in
                        {"json.SyntaxError", "json.UnmarshalTypeError"}

GetStatusOnEnvelopeBody ==
    /\ op = "GetStatus"
    /\ pc = "done"
    /\ resp.err = Nil
    /\ resp.b.kind = "envelope"
    /\ ret.status = NoStatus
    /\ ret.err.type = "joinError"
    /\ Len(ret.err.errs) = 2

(* C11: Delete returns an error holding the status line and the body text *)
(* on every response status of 400 and above, the transport's error when   *)
(* the request itself fails, and nil on every response below 400.          *)
DeleteDone == op = "Delete" /\ pc = "done" /\ resp.kind = "do"

DeleteErrors ==
    DeleteDone =>
        /\ resp.err # Nil => ret.err = resp.err
        /\ (resp.err = Nil /\ resp.r.StatusCode >= 400)
            => /\ ret.err # Nil
               /\ Contains(ret.err.text, resp.r.Status)
               /\ Contains(ret.err.text, resp.r.Body.data)
        /\ (resp.err = Nil /\ resp.r.StatusCode < 400) => ret.err = Nil

DeleteStatus400 ==
    /\ DeleteDone
    /\ resp.err = Nil
    /\ resp.r.StatusCode = 400
    /\ resp.r.Body.data = "boom"
    /\ ret.err.text[2] = "400 Bad Request"
    /\ ret.err.text[4] = "boom"

(* C12: IsFinished is true exactly of Aborted, JobComplete and Failed: it  *)
(* is false of UploadComplete and InProgress, and of any other string.     *)
IsFinishedIffTerminal ==
    fnOut.fn = "IsFinished" =>
        /\ fnOut.finished <=> stateIn \in {"Aborted", "JobComplete", "Failed"}
        /\ stateIn \in {"UploadComplete", "InProgress"} => ~fnOut.finished

IsFinishedOfAborted ==
    fnOut.fn = "IsFinished" /\ stateIn = "Aborted" /\ fnOut.finished

(* C13: ToError gives an error for Aborted and another, with another text, *)
(* for Failed, and nil for every other state.                              *)
ToErrorOnlyForAbortedAndFailed ==
    fnOut.fn = "ToError" =>
        /\ stateIn = "Aborted"
            => /\ fnOut.err # Nil
               /\ fnOut.err.text = <<"job aborted">>
               /\ fnOut.err # JobFailedError
        /\ stateIn = "Failed"
            => /\ fnOut.err # Nil
               /\ fnOut.err.text = <<"job failed">>
               /\ fnOut.err # JobAbortedError
        /\ stateIn \notin {"Aborted", "Failed"} => fnOut.err = Nil

ToErrorOfAborted ==
    /\ fnOut.fn = "ToError"
    /\ stateIn = "Aborted"
    /\ fnOut.err = JobAbortedError

(* C14: a quoted timestamp YYYY-MM-DDThh:mm:ss.sss+hhmm (or -hhmm) decodes *)
(* with no error to the instant it denotes, its clock time moved by the    *)
(* offset to UTC; a timestamp whose zone is Z or an offset with a colon is *)
(* rejected with an error.                                                 *)
Decoded == fnOut.fn = "UnmarshalJSON"

TimestampDecoding ==
    Decoded =>
        \A d \in DateParts, c \in ClockParts, f \in FracParts, z \in ZoneParts :
            bytesIn = Timestamp(<<Quote>>, d, c, f, z) =>
                /\ (d.good /\ c.good /\ f.good /\ z.form = "numeric")
                    => /\ fnOut.err = Nil
                       /\ timeRecv.day = d.day + (c.sec - z.off) \div 86400
                       /\ timeRecv.sec = (c.sec - z.off) % 86400
                       /\ timeRecv.ms = f.ms
                /\ z.form \in {"Z", "colon"}
                    => fnOut.err # Nil /\ timeRecv = fnOut.before

TimestampOfTheTestDecoded ==
    /\ Decoded
    /\ bytesIn = <<Quote, "2", "0", "2", "3", "-", "1", "2", "-", "0", "2",
                   "T", "0", "2", ":", "3", "0", ":", "0", "2", ".", "0",
                   "0", "0", "+", "0", "0", "0", "0", Quote>>
    /\ fnOut.before = ZeroTime
    /\ fnOut.err = Nil
    /\ timeRecv.day = 19693
    /\ timeRecv.sec = 9002

(* C15: decoding the JSON null gives the zero time and no error, whatever  *)
(* the receiver held before.                                               *)
NullDecodesToZero ==
    (Decoded /\ bytesIn = NullBytes) =>
        fnOut.err = Nil /\ timeRecv = ZeroTime

(* C15, as amended: decoding the JSON null reports no error and leaves the *)
(* receiver as it was, so that it is the zero time when the receiver was   *)
(* the zero time before.                                                   *)
NullLeavesReceiver ==
    (Decoded /\ bytesIn = NullBytes) =>
        /\ fnOut.err = Nil
        /\ timeRecv = fnOut.before
        /\ fnOut.before = ZeroTime => timeRecv = ZeroTime

NullIntoFreshTime ==
    /\ Decoded
    /\ bytesIn = NullBytes
    /\ fnOut.before = ZeroTime
    /\ timeRecv = ZeroTime
    /\ fnOut.err = Nil

(* C19: Wait takes a decoded status whose state is none of Aborted,        *)
(* JobComplete and Failed as not finished, a state outside the enumeration *)
(* and the empty state of a body with no state field included: it sleeps   *)
(* the full delay and, the context permitting, polls again; the response   *)
(* never makes it return.                                                  *)
ServedUnfinished == Decodable(resp) /\ resp.b.state \notin TerminalStates

WaitSleepsOnUnfinished ==
    /\ [][(op = "Wait" /\ pc = "got" /\ ServedUnfinished)
            => \/ pc' = "got"
               \/ /\ pc' = "sleep"
                  /\ timer' = SleepSeconds
                  /\ ret' = ret
                  /\ status'.State = IF resp.b.state = Absent THEN ""
                                     ELSE resp.b.state]_vars
    /\ [][(op = "Wait" /\ pc = "sleep" /\ ServedUnfinished)
            => pc' = "sleep" \/ (pc' = "check" /\ timer = 0)]_vars
    /\ [][(op = "Wait" /\ pc = "check" /\ ctxErr = Nil /\ ServedUnfinished)
            => \/ pc' = "check"
               \/ pc' = "request" /\ fetches' = Inc(fetches)]_vars
    /\ []((WaitDone /\ ServedUnfinished) => ret.err \in CtxErrors)

WaitPolledAgainAfterEmptyState ==
    /\ op = "Wait"
    /\ pc = "request"
    /\ resp.kind = "bytes"
    /\ resp.err = Nil
    /\ resp.b.kind = "object"
    /\ resp.b.state = Absent
    /\ status.State = ""
    /\ others = 1
    /\ answers = 0
    /\ sleeps = 1
    /\ fetches = 2

(* C20: every response GetResultSet or Delete obtained has its body closed *)
(* when the operation returns, whatever the status, so that no response    *)
(* body is open while no operation is in progress.                         *)
BodiesClosedOnReturn ==
    /\ (op \in {"GetResultSet", "Delete"} /\ pc = "done") => open = 0
    /\ op = "none" => open = 0

(* C17: every Delete call, however many Delete calls came before and      *)
(* however they ended, issues exactly one request, a GET to the status     *)
(* endpoint jobs/query/{id} that GetStatus uses, and keeps no record of    *)
(* the deletion on the client.                                             *)
DeleteCalled == op = "none" /\ op' = "Delete"

DeleteIssuesGet ==
    /\ pc' = "request"
    /\ req'.method = "GET"
    /\ req'.url = <<"<base>", "jobs/query", job.Id>>
    /\ req'.method = StatusRequest(job).method
    /\ req'.url = StatusRequest(job).url

DeleteKeepsNoRecord ==
    /\ [][op = "Delete" => (req' = req \/ op' = "none")]_vars
    /\ [][(DeleteCalled \/ op = "Delete") => job' = job /\ sent' = sent]_vars

DeleteAlwaysOneRequest ==
    /\ [][DeleteCalled => DeleteIssuesGet]_vars
    /\ DeleteKeepsNoRecord

(* C17, as amended: every Delete call whose request can be built issues    *)
(* exactly one request, a GET to jobs/query/{id}, whatever Delete calls    *)
(* came before, and keeps no record on the client; a call whose request    *)
(* cannot be built returns that error and sends nothing.                   *)
DeleteOneRequestIfBuilt ==
    /\ [][DeleteCalled =>
            IF job.Id = BadId
            THEN pc' = "done" /\ req' = NoReq /\ ret'.err # Nil
            ELSE DeleteIssuesGet]_vars
    /\ DeleteKeepsNoRecord

DeleteAfterTwoDeletes ==
    /\ op = "Delete"
    /\ pc = "request"
    /\ sent = {}
    /\ open = 2
    /\ req.method = "GET"
    /\ req.url = <<"<base>", "jobs/query", "750A">>

(* C18: no operation of the facade changes the job: through any sequence   *)
(* of GetStatus, Wait, GetResultSet and Delete calls, failed or not, every *)
(* field of the BulkJob keeps its value. Every status snapshot returned is *)
(* a new object, and no later poll writes to a snapshot returned earlier.  *)
JobAndSnapshotsUntouched ==
    /\ [][job' = job]_vars
    /\ []((op = "GetStatus" /\ pc = "done" /\ ret.err = Nil)
            => ret.addr \in Addrs /\ ret.addr # kept.addr)
    /\ [](~kept.written)
    /\ [][kept' # kept
            => /\ op = "GetStatus" /\ pc = "done" /\ op' = "none"
               /\ kept'.addr = ret.addr]_vars

SecondSnapshotAfterOtherCalls ==
    /\ op = "GetStatus"
    /\ pc = "done"
    /\ ret.err = Nil
    /\ ret.addr = 2
    /\ kept = [addr |-> 1, written |-> FALSE]
    /\ sent # {}
    /\ open = 2
    /\ job = [Id |-> "750A", State |-> "UploadComplete"]

(* C16: draining ends and is complete: against a server that holds N >= 1  *)
(* pages and serves page i + 1 for the token it handed out with page i,    *)
(* the loop that starts with the empty token and passes each Next to the   *)
(* next call receives each of the N pages once, in order, and then stops.  *)
DrainReceivesEachPageOnce ==
    draining \in {"run", "drained"} =>
        /\ Len(received) <= pages
        /\ \A i \in 1..Len(received) : received[i] = PageData(i)
        /\ draining = "drained" => Len(received) = pages

====
